---- MODULE Spec2Model ----
(***************************************************************************)
(* Volume lifecycle controller of cubefs-csi: the CSI controller server    *)
(* (pkg/chubaofs/controllerserver.go) and the control-plane client with    *)
(* ordered endpoint failover (pkg/cubefs/cfs_server.go).                   *)
(*                                                                         *)
(* One lifecycle call is a small process: the handler's local prologue     *)
(* (validation, capacity rounding, newCfsServer) is one step, every        *)
(* endpoint attempt of forEachMasterAddr is one step (the HTTP exchange    *)
(* with the cluster is the only point where calls interleave), and the     *)
(* local epilogue (building the reply) belongs to the last attempt.        *)
(***************************************************************************)
EXTENDS Integers, Sequences, FiniteSets, TLC

(***************************************************************************)
(* Bounds of the model.                                                    *)
(***************************************************************************)
MaxEndpoints == 2   \* most endpoints in a master address string
MaxClock   == 1     \* clock readings 0..MaxClock

(***************************************************************************)
(* Program constants.                                                      *)
(***************************************************************************)
MinVolumeSize       == 1073741824          \* util.GIB
ErrCodeVolNotExists == 7
ErrCodeDuplicateVol == 12
OwnerMaxLen         == 20                  \* ShortenString(.., 20)

GIB == MinVolumeSize

KVolumeName == "volName"
KMasterAddr == "masterAddr"
KLogLevel   == "logLevel"
KLogDir     == "logDir"
KOwner      == "owner"
KConsulAddr == "consulAddr"
KVolType    == "volType"
KZoneName   == "zoneName"

defaultClientConfPath == "/cfs/conf/"
defaultLogDir         == "/cfs/logs/"
defaultLogLevel       == "info"
jsonFileSuffix        == ".json"
defaultConsulAddr     == "http://consul-service.cubefs.svc.cluster.local:8500"
defaultVolType        == "0"
defaultOwner          == "chubaofs"
PluginFsType          == "chubaofs"

CREATE_DELETE_VOLUME == "CREATE_DELETE_VOLUME"
RPC_UNKNOWN          == "UNKNOWN"

(***************************************************************************)
(* Go maps of strings: a function on the keys present; a missing key       *)
(* reads as the empty string.                                              *)
(***************************************************************************)
EmptyMap == [k \in {} |-> ""]

MapGet(m, k) == IF k \in DOMAIN m THEN m[k] ELSE ""

MapPut(m, k, v) == [x \in (DOMAIN m) \cup {k} |-> IF x = k THEN v ELSE m[x]]

(***************************************************************************)
(* Errors.  class is the gRPC status class the error carries ("Unknown"    *)
(* for a plain fmt.Errorf error), what names the format string, addr the   *)
(* endpoint in the message's url, ccode/msg the cluster's code and         *)
(* message.                                                                *)
(***************************************************************************)
Nil == [class |-> "nil", what |-> "", addr |-> "", ccode |-> 0, msg |-> ""]

StatusError(class, what) ==
    [class |-> class, what |-> what, addr |-> "", ccode |-> 0, msg |-> ""]

UrlError(class, what, addr, code, msg) ==
    [class |-> class, what |-> what, addr |-> addr, ccode |-> code, msg |-> msg]

(***************************************************************************)
(* Strings.                                                                *)
(***************************************************************************)
RECURSIVE SplitFrom(_, _, _)
\* the fields of s from position start on, the scan standing at position i
SplitFrom(s, start, i) ==
    IF i > Len(s)
    THEN << SubSeq(s, start, Len(s)) >>
    ELSE IF SubSeq(s, i, i) = ","
         THEN << SubSeq(s, start, i - 1) >> \o SplitFrom(s, i + 1, i + 1)
         ELSE SplitFrom(s, start, i + 1)

\* strings.Split(s, ","): empty fields are kept
Split(s) == SplitFrom(s, 1, 1)

\* csicommon.ShortenString(s, n)
ShortenString(s, n) == IF Len(s) > n THEN SubSeq(s, 1, n) ELSE s

\* time.Now().UnixNano() printed with %d: 19 digits; the clock reading t is
\* the microsecond digit, the nanosecond digits follow it
UnixNano(t) == "170000000000000" \o ToString(t) \o "000"

(***************************************************************************)
(* Parameter normalizer.                                                   *)
(***************************************************************************)
\* getValueWithDefault that never takes the caller's value
getValueWithDefaultOnly(param, key, defaultValue) == defaultValue

getValueWithDefault(param, key, defaultValue) ==
    LET value == MapGet(param, key)
    IN  IF Len(value) = 0 THEN defaultValue ELSE value

NoServer == [clientConfFile |-> "", masterAddrs |-> << >>, clientConf |-> EmptyMap]

\* newCfsServer(volName, param) at clock reading t.  param is a Go map, so
\* the assignments of lines 91-97 write into the caller's map: the result
\* carries the map as the call leaves it, and clientConf is that same map.
newCfsServer(volName, param, t) ==
    LET masterAddr == MapGet(param, KMasterAddr) IN
    IF Len(volName) = 0 \/ Len(masterAddr) = 0
    THEN [cs |-> NoServer, param |-> param,
          err |-> StatusError("Unknown", "invalid argument for initializing cfsServer")]
    ELSE
      LET newVolName == getValueWithDefault(param, KVolumeName, volName)
          clientConfFile == defaultClientConfPath \o newVolName \o jsonFileSuffix
          newOwner == ShortenString("csi_" \o UnixNano(t), OwnerMaxLen)
          p1 == MapPut(param, KMasterAddr, masterAddr)
          p2 == MapPut(p1, KVolumeName, newVolName)
          p3 == MapPut(p2, KOwner, getValueWithDefault(p2, KOwner, newOwner))
          p4 == MapPut(p3, KLogLevel, getValueWithDefault(p3, KLogLevel, defaultLogLevel))
          p5 == MapPut(p4, KLogDir, defaultLogDir \o newVolName)
          p6 == MapPut(p5, KConsulAddr, getValueWithDefault(p5, KConsulAddr, defaultConsulAddr))
          p7 == MapPut(p6, KVolType, getValueWithDefault(p6, KVolType, defaultVolType))
      IN  [cs |-> [clientConfFile |-> clientConfFile,
                   masterAddrs |-> Split(masterAddr),
                   clientConf |-> p7],
           param |-> p7,
           err |-> Nil]

\* hex(md5(owner)): a digest, written as an injective tag of its input
Md5Hex(owner) == "md5:" \o owner

getOwnerMd5(cs) == Md5Hex(MapGet(cs.clientConf, KOwner))

(***************************************************************************)
(* Control-plane client.                                                   *)
(***************************************************************************)
\* What one HTTP exchange can bring back: http.Get fails ("get"), reading
\* the body fails ("read"), the body is no JSON of the response schema
\* ("unmarshal"), or a decoded cfsServerResponse ("json").
HttpKinds == {"get", "read", "unmarshal", "json"}

Codes == {0, 1, ErrCodeVolNotExists, ErrCodeDuplicateVol}

HttpOutcomes ==
    {[kind |-> k, code |-> 0, msg |-> ""] : k \in HttpKinds \ {"json"}}
    \cup {[kind |-> "json", code |-> c, msg |-> "m"] : c \in Codes}

NoResp == [Code |-> 0, Msg |-> ""]

\* executeRequest that reports an undecodable body as a plain error
executeRequestUnmarshalGeneric(url, http) ==
    IF http.kind = "get"
    THEN [resp |-> NoResp,
          err |-> UrlError("Unavailable", "request url failed", url.addr, 0, "")]
    ELSE IF http.kind = "read"
    THEN [resp |-> NoResp,
          err |-> UrlError("Unavailable", "read http response body", url.addr, 0, "")]
    ELSE IF http.kind = "unmarshal"
    THEN [resp |-> NoResp,
          err |-> UrlError("Unknown", "unmarshal http response body", url.addr, 0, "")]
    ELSE [resp |-> [Code |-> http.code, Msg |-> http.msg], err |-> Nil]

executeRequest(url, http) ==
    IF http.kind = "get"
    THEN [resp |-> NoResp,
          err |-> UrlError("Unavailable", "request url failed", url.addr, 0, "")]
    ELSE IF http.kind = "read"
    THEN [resp |-> NoResp,
          err |-> UrlError("Unavailable", "read http response body", url.addr, 0, "")]
    ELSE IF http.kind = "unmarshal"
    THEN [resp |-> NoResp,
          err |-> UrlError("Unavailable", "unmarshal http response body", url.addr, 0, "")]
    ELSE [resp |-> [Code |-> http.code, Msg |-> http.msg], err |-> Nil]

\* the request urls, field by field
createVolUrl(cs, addr, capacityGB) ==
    [path |-> "/admin/createVol", addr |-> addr,
     name |-> MapGet(cs.clientConf, KVolumeName), capacity |-> capacityGB,
     owner |-> MapGet(cs.clientConf, KOwner), authKey |-> "",
     zoneName |-> MapGet(cs.clientConf, KZoneName),
     volType |-> MapGet(cs.clientConf, KVolType)]

deleteVolUrl(cs, addr) ==
    [path |-> "/vol/delete", addr |-> addr,
     name |-> MapGet(cs.clientConf, KVolumeName), capacity |-> 0,
     owner |-> "", authKey |-> getOwnerMd5(cs), zoneName |-> "", volType |-> ""]

expandVolUrl(cs, addr, capacityGB) ==
    [path |-> "/vol/expand", addr |-> addr,
     name |-> MapGet(cs.clientConf, KVolumeName), capacity |-> capacityGB,
     owner |-> "", authKey |-> getOwnerMd5(cs), zoneName |-> "", volType |-> ""]

\* createVolumeAttempt without the duplicate-volume case
createVolumeAttemptDupFails(cs, capacityGB, addr, http) ==
    LET r == executeRequest(createVolUrl(cs, addr, capacityGB), http) IN
    IF r.err # Nil THEN r.err
    ELSE IF r.resp.Code # 0
         THEN UrlError("Unknown", "create volume failed", addr, r.resp.Code, r.resp.Msg)
         ELSE Nil

\* the attempt function createVolume hands to forEachMasterAddr
createVolumeAttempt(cs, capacityGB, addr, http) ==
    LET r == executeRequest(createVolUrl(cs, addr, capacityGB), http) IN
    IF r.err # Nil THEN r.err
    ELSE IF r.resp.Code # 0
         THEN IF r.resp.Code = ErrCodeDuplicateVol
              THEN Nil
              ELSE UrlError("Unknown", "create volume failed", addr, r.resp.Code, r.resp.Msg)
         ELSE Nil

\* deleteVolumeAttempt without the volume-not-exists case
deleteVolumeAttemptNotExistsFails(cs, addr, http) ==
    LET r == executeRequest(deleteVolUrl(cs, addr), http) IN
    IF r.err # Nil THEN r.err
    ELSE IF r.resp.Code # 0
         THEN UrlError("Unknown", "delete volume is failed", "", r.resp.Code, r.resp.Msg)
         ELSE Nil

\* the attempt function of deleteVolume
deleteVolumeAttempt(cs, addr, http) ==
    LET r == executeRequest(deleteVolUrl(cs, addr), http) IN
    IF r.err # Nil THEN r.err
    ELSE IF r.resp.Code # 0
         THEN IF r.resp.Code = ErrCodeVolNotExists
              THEN Nil
              ELSE UrlError("Unknown", "delete volume is failed", "", r.resp.Code, r.resp.Msg)
         ELSE Nil

\* expandVolumeAttempt that takes the not-found code for success
expandVolumeAttemptNotExistsOk(cs, capacityGB, addr, http) ==
    LET r == executeRequest(expandVolUrl(cs, addr, capacityGB), http) IN
    IF r.err # Nil THEN r.err
    ELSE IF r.resp.Code # 0
         THEN IF r.resp.Code = ErrCodeVolNotExists
              THEN Nil
              ELSE UrlError("Unknown", "expand volume failed", "", r.resp.Code, r.resp.Msg)
         ELSE Nil

\* the attempt function of expandVolume
expandVolumeAttempt(cs, capacityGB, addr, http) ==
    LET r == executeRequest(expandVolUrl(cs, addr, capacityGB), http) IN
    IF r.err # Nil THEN r.err
    ELSE IF r.resp.Code # 0
         THEN UrlError("Unknown", "expand volume failed", "", r.resp.Code, r.resp.Msg)
         ELSE Nil

\* forEachMasterAddr without the break on success
forEachMasterAddrNoBreak(idx, n, prevErr, e) ==
    IF idx < n
    THEN [done |-> FALSE, idx |-> idx + 1, err |-> e, warned |-> e # Nil]
    ELSE [done |-> TRUE, idx |-> idx + 1, err |-> e, warned |-> e # Nil]

\* forEachMasterAddr that keeps the first error instead of the last
forEachMasterAddrFirstError(idx, n, prevErr, e) ==
    IF e = Nil
    THEN [done |-> TRUE, idx |-> idx, err |-> Nil, warned |-> FALSE]
    ELSE LET kept == IF prevErr # Nil THEN prevErr ELSE e IN
         IF idx < n
         THEN [done |-> FALSE, idx |-> idx + 1, err |-> kept, warned |-> TRUE]
         ELSE [done |-> TRUE, idx |-> idx + 1, err |-> kept, warned |-> TRUE]

\* forEachMasterAddr that logs its warning before testing the error
forEachMasterAddrWarnsFirst(idx, n, prevErr, e) ==
    IF e = Nil
    THEN [done |-> TRUE, idx |-> idx, err |-> Nil, warned |-> TRUE]
    ELSE IF idx < n
         THEN [done |-> FALSE, idx |-> idx + 1, err |-> e, warned |-> TRUE]
         ELSE [done |-> TRUE, idx |-> idx + 1, err |-> e, warned |-> TRUE]

\* forEachMasterAddr that tries a failed endpoint again
forEachMasterAddrRetries(idx, n, prevErr, e) ==
    IF e = Nil
    THEN [done |-> TRUE, idx |-> idx, err |-> Nil, warned |-> FALSE]
    ELSE [done |-> FALSE, idx |-> idx, err |-> e, warned |-> TRUE]

\* One turn of forEachMasterAddr's loop at position idx of n endpoints:
\* prevErr is err before the attempt, e the attempt's result.  done tells
\* that the function returns (err is then its return value), warned that
\* the turn logged its warning.
forEachMasterAddr(idx, n, prevErr, e) ==
    IF e = Nil
    THEN [done |-> TRUE, idx |-> idx, err |-> Nil, warned |-> FALSE]
    ELSE IF idx < n
         THEN [done |-> FALSE, idx |-> idx + 1, err |-> e, warned |-> TRUE]
         ELSE [done |-> TRUE, idx |-> idx + 1, err |-> e, warned |-> TRUE]

(***************************************************************************)
(* The cluster behind the endpoints (external collaborator).  For every    *)
(* volume name it holds count volume records (0: no such volume) and the   *)
(* owner the volume was created with.  The cluster changes state exactly   *)
(* when it answers a request with code 0, and it accepts a request only    *)
(* when FaithfulCode says so; error codes it may give at any time.         *)
(***************************************************************************)
VolNames == {"v"}

NoVolumeRecord == [count |-> 0, owner |-> ""]

\* the code a cluster that detects duplicates, missing volumes and wrong
\* keys gives to a request in state cl
FaithfulCode(cl, url) ==
    LET rec == cl[url.name] IN
    IF url.path = "/admin/createVol"
    THEN IF rec.count > 0 THEN ErrCodeDuplicateVol ELSE 0
    ELSE IF rec.count = 0 THEN ErrCodeVolNotExists
         ELSE IF url.authKey = Md5Hex(rec.owner) THEN 0 ELSE 1

ClusterApply(cl, url, http) ==
    IF http.kind = "json" /\ http.code = 0
    THEN LET rec == cl[url.name] IN
         IF url.path = "/admin/createVol"
         THEN [cl EXCEPT ![url.name] =
                 [count |-> rec.count + 1,
                  owner |-> IF rec.count = 0 THEN url.owner ELSE rec.owner]]
         ELSE IF url.path = "/vol/delete"
         THEN [cl EXCEPT ![url.name] = NoVolumeRecord]
         ELSE cl
    ELSE cl

\* the cluster can end an exchange as http: it accepts only what it can
\* carry out; strict: it also names a duplicate or a missing volume only
\* when there is one
ClusterCanAnswer(cl, url, http, strict) ==
    /\ http.kind = "json" /\ http.code = 0 => FaithfulCode(cl, url) = 0
    /\ strict /\ http.kind = "json"
          /\ http.code \in {ErrCodeVolNotExists, ErrCodeDuplicateVol}
          => http.code = FaithfulCode(cl, url)

(***************************************************************************)
(* Controller server.                                                      *)
(***************************************************************************)
MountCap(fs) == [access |-> "mount", fsType |-> fs]
BlockCap     == [access |-> "block", fsType |-> ""]
NoMount      == [access |-> "none", fsType |-> ""]

\* getControllerServiceCapabilities that enables nothing
getControllerServiceCapabilitiesNone(cl) == << >>

\* getControllerServiceCapabilities
getControllerServiceCapabilities(cl) == cl

validateControllerServiceRequest(capList, c) ==
    IF c = RPC_UNKNOWN THEN Nil
    ELSE IF \E i \in 1..Len(capList) : capList[i] = c THEN Nil
    ELSE StatusError("InvalidArgument", "unsupported capability")

\* mountOptionsOf that keeps the first mount instead of the last
mountOptionsOfFirst(list) ==
    LET withMount == {i \in 1..Len(list) : list[i].access = "mount"} IN
    IF withMount = {} THEN NoMount
    ELSE list[CHOOSE i \in withMount : \A j \in withMount : i <= j]

\* the loop of CreateVolume over the capabilities: the mount of the last
\* capability that has one
mountOptionsOf(list) ==
    LET withMount == {i \in 1..Len(list) : list[i].access = "mount"} IN
    IF withMount = {} THEN NoMount
    ELSE list[CHOOSE i \in withMount : \A j \in withMount : j <= i]

\* CreateVolumeCheck without the filesystem-type comparison
CreateVolumeCheckAnyFsType(req) ==
    IF Len(req.name) = 0
    THEN StatusError("InvalidArgument", "Name missing in request")
    ELSE IF req.caps.isNil
    THEN StatusError("InvalidArgument", "Volume Capabilities missing in request")
    ELSE IF mountOptionsOf(req.caps.list) = NoMount
    THEN StatusError("InvalidArgument", "Volume lack of mount access type")
    ELSE Nil

\* the request checks of CreateVolume, in the code's order
CreateVolumeCheck(req) ==
    IF Len(req.name) = 0
    THEN StatusError("InvalidArgument", "Name missing in request")
    ELSE IF req.caps.isNil
    THEN StatusError("InvalidArgument", "Volume Capabilities missing in request")
    ELSE IF mountOptionsOf(req.caps.list) = NoMount
    THEN StatusError("InvalidArgument", "Volume lack of mount access type")
    ELSE IF mountOptionsOf(req.caps.list).fsType # PluginFsType
    THEN StatusError("InvalidArgument", "Volume fstype is not chubaofs")
    ELSE Nil

\* req.GetCapacityRange().GetRequiredBytes(): 0 without a range
GetRequiredBytes(req) == IF req.range.isNil THEN 0 ELSE req.range.requiredBytes

\* FlooredCapacity without the floor
FlooredCapacityNoFloor(req) == GetRequiredBytes(req)

\* capacity, floored at MinVolumeSize
FlooredCapacity(req) ==
    LET capacity == GetRequiredBytes(req) IN
    IF capacity < MinVolumeSize THEN MinVolumeSize ELSE capacity

\* util.RoundUpSizeInt(size, unit): size / unit, rounded up
RoundUpSizeInt(size, unit) ==
    LET roundedUp == size \div unit IN
    IF size % unit > 0 THEN roundedUp + 1 ELSE roundedUp

\* the parameters createOrDeleteVolume hands to the control-plane client
createOrDeleteVolumeParam(masterAddr, owner) ==
    MapPut(MapPut(EmptyMap, KMasterAddr, masterAddr), KOwner, owner)

NoVolume == [volumeId |-> "", capacityBytes |-> 0, volumeContext |-> EmptyMap]

NoReq == [name |-> "", caps |-> [isNil |-> TRUE, list |-> << >>],
          range |-> [isNil |-> TRUE, requiredBytes |-> 0], parameters |-> EmptyMap]

NoHttp == [kind |-> "none", code |-> 0, msg |-> ""]

IdleCall ==
    [pc |-> "idle", rpc |-> "none", stage |-> "none", req |-> NoReq,
     given |-> EmptyMap, param |-> EmptyMap, cs |-> NoServer,
     capacity |-> 0, capacityGB |-> 0, idx |-> 1, err |-> Nil,
     attempts |-> << >>, first |-> NoHttp, last |-> NoHttp,
     warnings |-> 0, seen |-> "", capabilities |-> << >>,
     overlap |-> FALSE, retry |-> FALSE,
     ret |-> [err |-> Nil, volume |-> NoVolume]]

\* the outcome of a call's latest endpoint attempt
LastHttp(k) == k.last

\* a call that returns err before any cluster call
Rejected(rpc, req, err) ==
    [IdleCall EXCEPT !.pc = "done", !.rpc = rpc, !.req = req,
                     !.ret = [err |-> err, volume |-> NoVolume]]

\* the operations the controller does not implement
UnimplementedRpcs ==
    {"ControllerPublishVolume", "ControllerUnpublishVolume", "GetCapacity",
     "ListVolumes", "CreateSnapshot", "DeleteSnapshot", "ListSnapshots"}

\* UnimplementedReply that answers success
UnimplementedReplyOk(rpc, req) == Rejected(rpc, req, Nil)

\* return nil, status.Error(codes.Unimplemented, "")
UnimplementedReply(rpc, req) == Rejected(rpc, req, StatusError("Unimplemented", ""))

\* the response of ControllerGetCapabilities
CapabilitiesReply(capList) ==
    [IdleCall EXCEPT !.pc = "done", !.rpc = "ControllerGetCapabilities",
                     !.capabilities = capList]

\* ReplyOf that drops the error of createOrDeleteVolume
ReplyOfDropsError(k, err) ==
    IF k.rpc = "CreateVolume"
    THEN [err |-> Nil,
          volume |-> [volumeId |-> k.req.name,
                      capacityBytes |-> k.capacity,
                      volumeContext |-> k.req.parameters]]
    ELSE [err |-> err, volume |-> NoVolume]

\* the reply of a call whose failover returned err
ReplyOf(k, err) ==
    IF err # Nil
    THEN [err |-> err, volume |-> NoVolume]
    ELSE IF k.rpc = "CreateVolume"
         THEN [err |-> Nil,
               volume |-> [volumeId |-> k.req.name,
                           capacityBytes |-> k.capacity,
                           volumeContext |-> k.req.parameters]]
         ELSE [err |-> Nil, volume |-> NoVolume]

(***************************************************************************)
(* State.                                                                  *)
(***************************************************************************)
VARIABLES
    masterAddress,  \* controllerServer.masterAddress
    caps,           \* controllerServer.caps
    now,            \* the clock newCfsServer reads
    call,           \* the lifecycle calls: position, locals, reply
    cluster         \* the cluster's volumes

vars == << masterAddress, caps, now, call, cluster >>

Calls == {1, 2}

(***************************************************************************)
(* Inputs.                                                                 *)
(***************************************************************************)
\* host names of a master address string: none (as a stray comma leaves)
\* or the name of a master
Hosts == {"", "a"}

RECURSIVE JoinHosts(_)
JoinHosts(q) ==
    IF Len(q) = 1 THEN q[1] ELSE q[1] \o "," \o JoinHosts(Tail(q))

\* the master address strings of 1..MaxEndpoints hosts, the empty string
\* among them
AddrStrings ==
    {JoinHosts(q) : q \in UNION {[1..n -> Hosts] : n \in 1..MaxEndpoints}}

Names == {"", "v"}

CapLists ==
    { << >>,
      << BlockCap >>,
      << MountCap("chubaofs") >>,
      << MountCap("ChubaoFS") >>,
      << MountCap("chubaofs"), BlockCap >>,
      << MountCap("ext4"), MountCap("chubaofs") >>,
      << MountCap("chubaofs"), MountCap("ext4") >> }

CapFields ==
    {[isNil |-> TRUE, list |-> << >>]} \cup {[isNil |-> FALSE, list |-> l] : l \in CapLists}

RequiredBytesValues == {-1, 1, GIB, GIB + 1, GIB + (GIB - 1)}

RangeFields ==
    {[isNil |-> TRUE, requiredBytes |-> 0]}
    \cup {[isNil |-> FALSE, requiredBytes |-> b] : b \in RequiredBytesValues}

ParameterMaps == {EmptyMap, MapPut(EmptyMap, KZoneName, "z")}

AllCreateRequests ==
    [name : Names, caps : CapFields, range : RangeFields, parameters : ParameterMaps]

PlainCaps == [isNil |-> FALSE, list |-> << MountCap("chubaofs") >>]
NoRange   == [isNil |-> TRUE, requiredBytes |-> 0]

PlainRequest ==
    [name |-> "v", caps |-> PlainCaps, range |-> NoRange, parameters |-> EmptyMap]

\* the requests that differ from the plain one in at most one field
CreateRequests ==
    {r \in AllCreateRequests :
        Cardinality({f \in {"name", "caps", "range", "parameters"} :
                        r[f] # PlainRequest[f]}) <= 1}

\* the requests of the concurrent specification: valid ones
PlainCreateRequests ==
    {PlainRequest}

\* parameter maps handed to newCfsServer directly
CfsParams(addr) ==
    { EmptyMap,
      MapPut(EmptyMap, KMasterAddr, addr),
      MapPut(MapPut(EmptyMap, KMasterAddr, addr), KOwner, defaultOwner) }

\* a volume name with each parameter map, no volume name with a full map
CfsInputs(addr) ==
    {[name |-> "v", param |-> p] : p \in CfsParams(addr)}
    \cup {[name |-> "", param |-> MapPut(EmptyMap, KMasterAddr, addr)]}

\* the keys newCfsServer reads or writes, and a key it does not know
NormalizerKeys ==
    {KMasterAddr, KVolumeName, KOwner, KLogLevel, KLogDir, KConsulAddr,
     KVolType, KZoneName}

\* for a key: absent from the map ("-"), present and empty, present with a
\* value
KeyChoices == {"-", "", "x"}

\* the parameter map that holds the keys f does not mark absent
ParamOf(f) == [k \in {x \in NormalizerKeys : f[x] # "-"} |-> f[k]]

NormalizerParams == {ParamOf(f) : f \in [NormalizerKeys -> KeyChoices]}

Stages == {"CreateVolume", "DeleteVolume", "ExpandVolume"}

\* the capacity, in GiB, a direct caller asks of a stage
StageCapacityGB(stage) ==
    IF stage = "CreateVolume" THEN 1 ELSE IF stage = "ExpandVolume" THEN 2 ELSE 0

(***************************************************************************)
(* Init: NewControllerServer(masterAddress), an empty cluster.             *)
(***************************************************************************)
NewControllerServer(addr) ==
    /\ caps = getControllerServiceCapabilities(<< CREATE_DELETE_VOLUME >>)
    /\ masterAddress = addr

InitWith(addrs) ==
    /\ \E addr \in addrs : NewControllerServer(addr)
    /\ now = 0
    /\ call = [c \in Calls |-> IdleCall]
    /\ cluster = [n \in VolNames |-> NoVolumeRecord]

Init == InitWith(AddrStrings)

\* the master addresses of the concurrent specification: two live
\* endpoints, a dead one before a live one
ConcAddrs == {"a,a", ",a"}

\* the exchanges of the concurrent specification: no connection, or an
\* answer
ConcOutcomes == {o \in HttpOutcomes : o.kind \in {"get", "json"}}

InitConc == InitWith(ConcAddrs)

\* the normalizer specification: a caller holds a volume name and a
\* parameter map for newCfsServer
InitNorm ==
    /\ NewControllerServer("a")
    /\ now = 0
    /\ \E name \in Names, param \in NormalizerParams :
          call = [c \in Calls |->
                    IF c = 1
                    THEN [IdleCall EXCEPT !.req = [NoReq EXCEPT !.name = name,
                                                               !.parameters = param]]
                    ELSE IdleCall]
    /\ cluster = [n \in VolNames |-> NoVolumeRecord]

\* the master address of the failover specification: three endpoints
FailoverAddrs == {"a,a,a"}

InitFailover == InitWith(FailoverAddrs)

(***************************************************************************)
(* Operations.                                                             *)
(***************************************************************************)
\* The control-plane client is built and the operation stage is entered:
\* newCfsServer, then createVolume / deleteVolume / expandVolume up to the
\* first endpoint attempt.
EnterStage(base, stage, volName, param, capacityGB) ==
    LET r == newCfsServer(volName, param, now) IN
    IF r.err # Nil
    THEN [base EXCEPT !.pc = "done", !.stage = stage, !.given = param,
                      !.param = r.param,
                      !.ret = [err |-> r.err, volume |-> NoVolume]]
    ELSE [base EXCEPT !.pc = "running", !.stage = stage, !.given = param,
                      !.param = r.param, !.cs = r.cs,
                      !.capacityGB = capacityGB]

\* createOrDeleteVolume(request, masterAddr, volumeId, owner, capacityGB)
createOrDeleteVolume(base, stage, masterAddr, volumeId, owner, capacityGB) ==
    EnterStage(base, stage, volumeId,
               createOrDeleteVolumeParam(masterAddr, owner), capacityGB)

Free(c) == call[c].pc # "running"

\* the call repeats a finished one: the same stage for the same volume
\* name has returned success on the cluster's answer 0
Repeats(stage, name) ==
    \E d \in Calls :
        /\ call[d].pc = "done"
        /\ call[d].stage = stage
        /\ call[d].req.name = name
        /\ call[d].ret.err = Nil
        /\ LastHttp(call[d]).code = 0

\* CreateVolume, up to its first cluster call
CreateVolume(c, req) ==
    /\ Free(c)
    /\ LET verr == validateControllerServiceRequest(caps, CREATE_DELETE_VOLUME)
           cerr == CreateVolumeCheck(req)
           capacity == FlooredCapacity(req)
           capacityInGIB == RoundUpSizeInt(capacity, GIB)
           base == [IdleCall EXCEPT
                      !.rpc = "CreateVolume", !.req = req, !.capacity = capacity,
                      !.retry = Repeats("CreateVolume", req.name)]
       IN  call' = [call EXCEPT ![c] =
                IF verr # Nil THEN Rejected("CreateVolume", req, verr)
                ELSE IF cerr # Nil THEN Rejected("CreateVolume", req, cerr)
                ELSE createOrDeleteVolume(base, "CreateVolume", masterAddress,
                                          req.name, defaultOwner, capacityInGIB)]
    /\ UNCHANGED << masterAddress, caps, now, cluster >>

\* DeleteVolume, up to its first cluster call
DeleteVolume(c, volumeId) ==
    /\ Free(c)
    /\ LET verr == validateControllerServiceRequest(caps, CREATE_DELETE_VOLUME)
           req == [NoReq EXCEPT !.name = volumeId]
           base == [IdleCall EXCEPT
                      !.rpc = "DeleteVolume", !.req = req,
                      !.retry = Repeats("DeleteVolume", volumeId)]
       IN  call' = [call EXCEPT ![c] =
                IF verr # Nil THEN Rejected("DeleteVolume", req, verr)
                ELSE IF masterAddress = ""
                THEN Rejected("DeleteVolume", req,
                              StatusError("InvalidArgument", "cannot find master addr"))
                ELSE createOrDeleteVolume(base, "DeleteVolume", masterAddress,
                                          volumeId, defaultOwner, 0)]
    /\ UNCHANGED << masterAddress, caps, now, cluster >>

\* A caller of the control-plane client itself: newCfsServer(volName, param)
\* followed by createVolume, deleteVolume or expandVolume.
CfsServerCall(c, stage, volName, param, capacityGB) ==
    /\ Free(c)
    /\ LET req == [NoReq EXCEPT !.name = volName, !.parameters = param]
           base == [IdleCall EXCEPT !.rpc = "cfsServer", !.req = req,
                                    !.retry = Repeats(stage, volName)]
       IN  call' = [call EXCEPT ![c] =
                        EnterStage(base, stage, volName, param, capacityGB)]
    /\ UNCHANGED << masterAddress, caps, now, cluster >>

\* ControllerPublishVolume, ..., ListSnapshots on a request naming id
Unimplemented(c, rpc, id) ==
    /\ Free(c)
    /\ call' = [call EXCEPT ![c] = UnimplementedReply(rpc, [NoReq EXCEPT !.name = id])]
    /\ UNCHANGED << masterAddress, caps, now, cluster >>

ControllerGetCapabilities(c) ==
    /\ Free(c)
    /\ call' = [call EXCEPT ![c] = CapabilitiesReply(caps)]
    /\ UNCHANGED << masterAddress, caps, now, cluster >>

\* newCfsServer(volName, param) on the name and the map the caller holds
NewCfsServerCall(c) ==
    /\ call[c].pc = "idle"
    /\ LET in == call[c].req
           r  == newCfsServer(in.name, in.parameters, now)
       IN  call' = [call EXCEPT ![c] =
                      [@ EXCEPT !.pc = "done", !.rpc = "newCfsServer",
                                !.given = in.parameters, !.param = r.param,
                                !.cs = r.cs,
                                !.ret = [err |-> r.err, volume |-> NoVolume]]]
    /\ UNCHANGED << masterAddress, caps, now, cluster >>

\* the url the stage sends to addr
StageUrl(k, addr) ==
    IF k.stage = "CreateVolume" THEN createVolUrl(k.cs, addr, k.capacityGB)
    ELSE IF k.stage = "DeleteVolume" THEN deleteVolUrl(k.cs, addr)
    ELSE expandVolUrl(k.cs, addr, k.capacityGB)

\* the stage's attempt function on addr, the exchange ending as http
StageAttempt(k, addr, http) ==
    IF k.stage = "CreateVolume" THEN createVolumeAttempt(k.cs, k.capacityGB, addr, http)
    ELSE IF k.stage = "DeleteVolume" THEN deleteVolumeAttempt(k.cs, addr, http)
    ELSE expandVolumeAttempt(k.cs, k.capacityGB, addr, http)

\* One endpoint attempt of forEachMasterAddr; with the last one, the return
\* of the stage and of the handler.  A url without a host never gets a
\* response.  attempts, first, last, seen and overlap record what
\* happened: the positions tried and whether each attempt succeeded, how
\* the first and the latest exchange ended, the owner the cluster held for
\* the volume, whether another call stood between two of its attempts.
EndpointAttempt(c, http, strict) ==
    /\ call[c].pc = "running"
    /\ LET k    == call[c]
           n    == Len(k.cs.masterAddrs)
           addr == k.cs.masterAddrs[k.idx]
           url  == StageUrl(k, addr)
           e    == StageAttempt(k, addr, http)
           step == forEachMasterAddr(k.idx, n, k.err, e)
           rec  == cluster[url.name]
       IN  /\ addr = "" => http.kind = "get"
           /\ ClusterCanAnswer(cluster, url, http, strict)
           /\ cluster' = ClusterApply(cluster, url, http)
           /\ call' = [call EXCEPT ![c] =
                 [k EXCEPT
                    !.idx = step.idx,
                    !.err = step.err,
                    !.attempts = Append(k.attempts, [idx |-> k.idx, ok |-> e = Nil]),
                    !.first = IF k.attempts = << >> THEN http ELSE k.first,
                    !.last = http,
                    !.warnings = IF step.warned THEN k.warnings + 1 ELSE k.warnings,
                    !.seen = IF rec.count > 0 THEN rec.owner ELSE k.seen,
                    !.overlap = (k.overlap \/
                                  \E d \in Calls \ {c} :
                                     call[d].pc = "running" /\ call[d].attempts # << >>),
                    !.pc = IF step.done THEN "done" ELSE "running",
                    !.ret = IF step.done THEN ReplyOf(k, step.err) ELSE k.ret]]
    /\ UNCHANGED << masterAddress, caps, now >>

\* time passes
Tick ==
    /\ now < MaxClock
    /\ now' = now + 1
    /\ UNCHANGED << masterAddress, caps, call, cluster >>

(***************************************************************************)
(* Specifications.  Spec: one call at a time, every request shape.         *)
(* SpecConc: two controller calls in flight, plain requests, a cluster     *)
(* that names duplicates and missing volumes truthfully.                   *)
(***************************************************************************)
Next ==
    \/ \E req \in CreateRequests : CreateVolume(1, req)
    \/ \E id \in Names : DeleteVolume(1, id)
    \/ \E stage \in Stages, in \in CfsInputs(masterAddress) :
          CfsServerCall(1, stage, in.name, in.param, StageCapacityGB(stage))
    \/ \E http \in HttpOutcomes : EndpointAttempt(1, http, FALSE)
    \/ Tick

Spec == Init /\ [][Next]_vars

NextConc ==
    \/ \E c \in Calls, req \in PlainCreateRequests : CreateVolume(c, req)
    \/ \E c \in Calls : DeleteVolume(c, "v")
    \/ \E c \in Calls, http \in ConcOutcomes : EndpointAttempt(c, http, TRUE)

SpecConc == InitConc /\ [][NextConc]_vars

\* SpecRpc: a CreateVolume or DeleteVolume call in one handler, the other
\* operations of the controller in a second handler beside it.
NextRpc ==
    \/ \E req \in CreateRequests : CreateVolume(1, req)
    \/ \E id \in Names : DeleteVolume(1, id)
    \/ \E http \in ConcOutcomes : EndpointAttempt(1, http, FALSE)
    \/ \E rpc \in UnimplementedRpcs, id \in Names : Unimplemented(2, rpc, id)
    \/ ControllerGetCapabilities(2)

SpecRpc == InitConc /\ [][NextRpc]_vars

\* SpecNorm: newCfsServer alone, on every shape of parameter map.
NextNorm ==
    \/ NewCfsServerCall(1)
    \/ Tick

SpecNorm == InitNorm /\ [][NextNorm]_vars

\* SpecFailover: the control-plane client alone, on three endpoints.
NextFailover ==
    \/ \E stage \in Stages, in \in CfsInputs(masterAddress) :
          CfsServerCall(1, stage, in.name, in.param, StageCapacityGB(stage))
    \/ \E http \in HttpOutcomes : EndpointAttempt(1, http, FALSE)

SpecFailover == InitFailover /\ [][NextFailover]_vars

\* SpecFailoverLive: every endpoint attempt returns, that is, a call that
\* stands before an attempt sooner or later gets the exchange's outcome.
SpecFailoverLive ==
    SpecFailover /\ WF_vars(\E http \in HttpOutcomes : EndpointAttempt(1, http, FALSE))

(***************************************************************************)
(* Properties.                                                             *)
(***************************************************************************)
Endpoints(k) == Len(k.cs.masterAddrs)

AllFailed(k) == \A i \in 1..Len(k.attempts) : ~k.attempts[i].ok

Exhausted(k) == Len(k.attempts) = Endpoints(k) /\ AllFailed(k)

\* the error of the attempt on the last endpoint of the list
LastEndpointError(k) ==
    StageAttempt(k, k.cs.masterAddrs[Endpoints(k)], LastHttp(k))

\* C1: forEachMasterAddr tries the endpoints in list order, 1, 2, ..., and
\* stops at the first attempt without error: a successful attempt is the
\* last attempt of its call, and the call has returned success.
C1_OrderedFirstSuccess ==
    \A c \in Calls :
        LET k == call[c] IN
        /\ Len(k.attempts) <= Endpoints(k)
        /\ \A i \in 1..Len(k.attempts) :
              /\ k.attempts[i].idx = i
              /\ k.attempts[i].ok =>
                    /\ i = Len(k.attempts)
                    /\ k.pc = "done"
                    /\ k.ret.err = Nil

\* a call succeeded on the first of two endpoints and returned with the
\* second untried
C1_Witness ==
    \E c \in Calls :
        LET k == call[c] IN
        /\ k.pc = "done" /\ k.ret.err = Nil
        /\ Len(k.attempts) = 1 /\ Endpoints(k) = 2
        /\ k.attempts[1].ok /\ k.idx = 1

\* C2: when the attempt fails on every endpoint, the operation fails and
\* returns the error of the attempt on the last endpoint of the list.
C2_LastErrorReturned ==
    \A c \in Calls :
        LET k == call[c] IN
        (k.pc = "done" /\ k.attempts # << >> /\ Exhausted(k)) =>
            /\ k.ret.err # Nil
            /\ k.ret.err = LastEndpointError(k)
            /\ k.ret.volume = NoVolume

\* two endpoints failed in different ways (a cluster code, then no
\* connection) and the call returned the second error
C2_Witness ==
    \E c \in Calls :
        LET k == call[c] IN
        /\ k.pc = "done" /\ Exhausted(k) /\ Len(k.attempts) = 2
        /\ k.first.kind = "json" /\ k.last.kind = "get"
        /\ k.ret.err.class = "Unavailable"
        /\ k.ret.err # StageAttempt(k, k.cs.masterAddrs[1], k.first)

\* C3: in createVolume an endpoint reply with code 0 or with the
\* duplicate-volume code 12 (the latest reply, in every state) is a
\* successful attempt that ends failover, and the call returns success; so
\* CreateVolume answered 0 and then, repeated for the same name, answered
\* 12, succeeds both times.
C3_CreateIdempotent ==
    \A c \in Calls :
        LET k == call[c] IN
        (/\ k.stage = "CreateVolume" /\ k.attempts # << >>
         /\ LastHttp(k).kind = "json"
         /\ LastHttp(k).code \in {0, ErrCodeDuplicateVol}) =>
            /\ k.attempts[Len(k.attempts)].ok
            /\ k.pc = "done"
            /\ k.ret.err = Nil

\* a create repeated after one that created the volume (answer 0) was
\* answered 12 and returned success
C3_Witness ==
    \E c \in Calls :
        LET k == call[c] IN
        /\ k.stage = "CreateVolume" /\ k.pc = "done" /\ k.retry
        /\ LastHttp(k).kind = "json" /\ LastHttp(k).code = ErrCodeDuplicateVol
        /\ cluster[k.req.name].count = 1
        /\ k.ret.err = Nil

\* C4: in deleteVolume an endpoint reply with code 0 or with the not-found
\* code 7 (the latest reply, in every state) is a successful attempt that
\* ends failover, and the call returns success; so a DeleteVolume repeated
\* after the volume was deleted succeeds on the first endpoint that answers
\* not found.
C4_DeleteNotFoundSucceeds ==
    \A c \in Calls :
        LET k == call[c] IN
        (/\ k.stage = "DeleteVolume" /\ k.attempts # << >>
         /\ LastHttp(k).kind = "json"
         /\ LastHttp(k).code \in {0, ErrCodeVolNotExists}) =>
            /\ k.attempts[Len(k.attempts)].ok
            /\ k.pc = "done"
            /\ k.ret.err = Nil

\* a delete repeated after one that deleted the volume (answer 0) was
\* answered 7 by a cluster that holds no such volume, and returned success
C4_Witness ==
    \E c \in Calls :
        LET k == call[c] IN
        /\ k.stage = "DeleteVolume" /\ k.pc = "done" /\ k.retry
        /\ LastHttp(k).kind = "json" /\ LastHttp(k).code = ErrCodeVolNotExists
        /\ cluster[k.req.name].count = 0
        /\ k.ret.err = Nil

\* a call was answered by the cluster's create/duplicate decision
Responsive(k) ==
    LastHttp(k).kind = "json" /\ LastHttp(k).code \in {0, ErrCodeDuplicateVol}

\* C5: two CreateVolume calls for one name, whatever the interleaving of
\* their endpoint attempts, both return success and leave exactly one
\* volume of that name, provided each got the cluster's decision from some
\* endpoint.
C5_ConcurrentCreateConverges ==
    \A c, d \in Calls :
        LET k == call[c]
            m == call[d]
        IN  (/\ c # d
             /\ k.rpc = "CreateVolume" /\ m.rpc = "CreateVolume"
             /\ k.pc = "done" /\ m.pc = "done"
             /\ k.req.name = m.req.name
             /\ Responsive(k) /\ Responsive(m)) =>
                /\ k.ret.err = Nil /\ m.ret.err = Nil
                /\ cluster[k.req.name].count = 1

\* both calls made an attempt between two attempts of the other, one was
\* answered 0 and the other 12, both succeeded
C5_Witness ==
    /\ call[1].rpc = "CreateVolume" /\ call[2].rpc = "CreateVolume"
    /\ call[1].pc = "done" /\ call[2].pc = "done"
    /\ call[1].overlap /\ call[2].overlap
    /\ LastHttp(call[1]).kind = "json" /\ LastHttp(call[1]).code = 0
    /\ LastHttp(call[2]).kind = "json" /\ LastHttp(call[2]).code = ErrCodeDuplicateVol
    /\ call[1].ret.err = Nil /\ call[2].ret.err = Nil
    /\ cluster["v"].count = 1

\* u units of 1 GiB hold m bytes (written without u * GIB, which exceeds
\* 32-bit integer arithmetic for u = 2)
UnitsHold(u, m) == IF u = 0 THEN m <= 0 ELSE m - (u - 1) * GIB <= GIB

\* a CreateVolume call that passed the request checks and built its client
Provisioning(k) == k.rpc = "CreateVolume" /\ k.cs # NoServer

\* C6: the capacity CreateVolume sends to every endpoint is the least
\* number of whole GiB units holding max(required bytes, one unit); below
\* one unit (zero and no capacity range included) it is one unit.
C6_CapacityRoundedUp ==
    \A c \in Calls :
        LET k == call[c]
            required == GetRequiredBytes(k.req)
            floored  == IF required < GIB THEN GIB ELSE required
        IN  Provisioning(k) =>
              \A i \in 1..Endpoints(k) :
                LET sent == createVolUrl(k.cs, k.cs.masterAddrs[i], k.capacityGB).capacity IN
                /\ sent >= 1
                /\ UnitsHold(sent, floored)
                /\ ~UnitsHold(sent - 1, floored)
                /\ required < GIB => sent = 1

\* a request for one byte more than a unit was sent as two units
C6_Witness ==
    \E c \in Calls :
        LET k == call[c] IN
        /\ Provisioning(k) /\ k.attempts # << >>
        /\ GetRequiredBytes(k.req) = GIB + 1
        /\ k.capacityGB = 2

\* a CreateVolume request the claim calls invalid
BadCreateRequest(req) ==
    \/ req.name = ""
    \/ req.caps.isNil
    \/ req.caps.list = << >>
    \/ \A i \in 1..Len(req.caps.list) : req.caps.list[i].access # "mount"
    \/ \A i \in 1..Len(req.caps.list) :
          req.caps.list[i].access = "mount" => req.caps.list[i].fsType # "chubaofs"

RejectedUntouched(k) ==
    /\ k.pc = "done"
    /\ k.ret.err.class = "InvalidArgument"
    /\ k.ret.volume = NoVolume
    /\ k.attempts = << >>
    /\ k.cs = NoServer

\* C7: a CreateVolume request with an empty name, without capabilities,
\* without a mount capability, or with a mount filesystem type other than
\* "chubaofs" is answered InvalidArgument at once: the call makes no
\* endpoint attempt, and the step that takes the request leaves the cluster
\* as it was.
C7_InvalidRejectedBeforeCluster ==
    [][\A c \in Calls :
          (call'[c].rpc = "CreateVolume" /\ BadCreateRequest(call'[c].req)) =>
              /\ RejectedUntouched(call'[c])
              /\ call'[c] # call[c] => cluster' = cluster]_vars

\* a request whose filesystem type differs from the identifier only in case
\* was rejected while the cluster held a volume
C7_Witness ==
    \E c \in Calls :
        LET k == call[c] IN
        /\ k.rpc = "CreateVolume"
        /\ k.req.name = "v"
        /\ k.req.caps.list = << MountCap("ChubaoFS") >>
        /\ RejectedUntouched(k)
        /\ cluster["v"].count = 1

C9_DescriptorCapacityRounded ==
    \A c \in Calls :
        LET k == call[c] IN
        (k.rpc = "CreateVolume" /\ k.pc = "done" /\ k.attempts # << >>
            /\ k.ret.err = Nil) =>
            /\ k.ret.volume.capacityBytes % GIB = 0
            /\ k.ret.volume.capacityBytes \div GIB = k.capacityGB

\* the owner argument behind an owner value: none behind a defaulted one
OwnerArgumentOf(owner) ==
    IF Len(owner) >= 4 /\ SubSeq(owner, 1, 4) = "csi_" THEN "" ELSE owner

\* C10 as stated: the key a delete or expand presents for an existing
\* volume is the digest of the owner the volume was created with, whenever
\* its caller passes the owner argument the creator passed, no owner
\* included.
C10_OwnerStable ==
    \A c \in Calls :
        LET k == call[c] IN
        (/\ k.stage \in {"DeleteVolume", "ExpandVolume"}
         /\ k.seen # ""
         /\ MapGet(k.given, KOwner) = OwnerArgumentOf(k.seen)) =>
            getOwnerMd5(k.cs) = Md5Hex(k.seen)

\* C11: in expandVolume only an endpoint reply with code 0 is a successful
\* attempt: the latest attempt succeeded exactly when its reply was a
\* decoded response with code 0, a returned expandVolume succeeded exactly
\* in that case, and replies 7 and 12 are failed attempts like any other
\* non-zero code, so that non-zero replies from every endpoint fail the
\* operation.
C11_ExpandNoIdempotentCodes ==
    \A c \in Calls :
        LET k == call[c]
            zero == LastHttp(k).kind = "json" /\ LastHttp(k).code = 0
        IN  (k.stage = "ExpandVolume" /\ k.attempts # << >>) =>
              /\ k.attempts[Len(k.attempts)].ok <=> zero
              /\ k.pc = "done" => (k.ret.err = Nil <=> zero)
              /\ (k.pc = "done" /\ ~zero) =>
                    /\ Exhausted(k)
                    /\ k.ret.err = LastEndpointError(k)
              /\ (LastHttp(k).kind = "json" /\ LastHttp(k).code # 0) =>
                    /\ k.err.class = "Unknown"
                    /\ k.err.ccode = LastHttp(k).code

\* an expandVolume of an existing volume was answered 12 by the first of
\* two endpoints and 7 by the second, and failed with the second's error
C11_Witness ==
    \E c \in Calls :
        LET k == call[c] IN
        /\ k.stage = "ExpandVolume" /\ k.pc = "done"
        /\ Len(k.attempts) = 2
        /\ k.first.kind = "json" /\ k.first.code = ErrCodeDuplicateVol
        /\ LastHttp(k).kind = "json" /\ LastHttp(k).code = ErrCodeVolNotExists
        /\ cluster[k.req.name].count = 1
        /\ k.ret.err # Nil /\ k.ret.err.ccode = ErrCodeVolNotExists

\* the attempts of a call that failed
FailedAttempts(k) == {i \in 1..Len(k.attempts) : ~k.attempts[i].ok}

IdempotentCodes(stage) ==
    IF stage = "CreateVolume" THEN {ErrCodeDuplicateVol}
    ELSE IF stage = "DeleteVolume" THEN {ErrCodeVolNotExists}
    ELSE {}

\* C13: the error of a failed endpoint attempt has class Unavailable
\* exactly when the exchange brought no decoded response (http.Get failed,
\* reading the body failed, the body did not decode); a decoded response
\* with a non-zero code the stage does not take for success gives a plain
\* error (class Unknown) carrying the cluster's code and message; and a
\* failed operation returns the error, hence the class, of its last
\* endpoint's attempt.
C13_ErrorClassByCause ==
    \A c \in Calls :
        LET k == call[c]
            h == LastHttp(k)
        IN  k.attempts # << >> =>
              /\ h.kind \in {"get", "read", "unmarshal"} =>
                    /\ ~k.attempts[Len(k.attempts)].ok
                    /\ k.err.class = "Unavailable"
              /\ (h.kind = "json" /\ h.code \notin {0} \cup IdempotentCodes(k.stage)) =>
                    /\ ~k.attempts[Len(k.attempts)].ok
                    /\ k.err.class = "Unknown"
                    /\ k.err.ccode = h.code
                    /\ k.err.msg = h.msg
              /\ k.err # Nil => (k.err.class = "Unavailable" <=> h.kind # "json")
              /\ (k.pc = "done" /\ k.ret.err # Nil) =>
                    /\ k.ret.err = k.err
                    /\ k.ret.err = LastEndpointError(k)

\* the first of three endpoints sent a body that did not decode, the last
\* answered code 1: the operation failed with a plain error carrying code
\* 1 and the cluster's message
C13_Witness ==
    \E c \in Calls :
        LET k == call[c] IN
        /\ k.pc = "done" /\ Len(k.attempts) = 3
        /\ k.first.kind = "unmarshal"
        /\ LastHttp(k).kind = "json" /\ LastHttp(k).code = 1
        /\ k.ret.err.class = "Unknown"
        /\ k.ret.err.ccode = 1 /\ k.ret.err.msg = "m"

\* C14: a step that answers ControllerPublishVolume,
\* ControllerUnpublishVolume, GetCapacity, ListVolumes, CreateSnapshot,
\* DeleteSnapshot or ListSnapshots answers Unimplemented, whatever the
\* request and the state, makes no endpoint attempt, and leaves the
\* cluster, the controller's fields and every other call as they were.
C14_UnimplementedAlways ==
    [][\A c \in Calls :
          (call'[c] # call[c] /\ call'[c].rpc \in UnimplementedRpcs) =>
              /\ call'[c].pc = "done"
              /\ call'[c].ret.err.class = "Unimplemented"
              /\ call'[c].ret.volume = NoVolume
              /\ call'[c].attempts = << >>
              /\ call'[c].cs = NoServer
              /\ cluster' = cluster
              /\ masterAddress' = masterAddress
              /\ caps' = caps
              /\ \A d \in Calls \ {c} : call'[d] = call[d]]_vars

\* ListVolumes was answered Unimplemented while a CreateVolume call stood
\* between two endpoint attempts
C14_Witness ==
    \E c, d \in Calls :
        /\ call[c].rpc = "ListVolumes" /\ call[c].pc = "done"
        /\ call[c].ret.err.class = "Unimplemented"
        /\ call[d].rpc = "CreateVolume" /\ call[d].pc = "running"
        /\ call[d].attempts # << >>

\* C15 as stated: newCfsServer called with an empty volume name, or with
\* a parameter map whose master address is absent or empty, builds no
\* client and fails with an error of class InvalidArgument.
C15_NormalizerInvalidArgument ==
    \A c \in Calls :
        LET k == call[c] IN
        (/\ k.rpc = "cfsServer"
         /\ (k.req.name = "" \/ MapGet(k.given, KMasterAddr) = "")) =>
            /\ k.pc = "done"
            /\ k.cs = NoServer
            /\ k.attempts = << >>
            /\ k.ret.err.class = "InvalidArgument"

\* a newCfsServer call that built its client
Normalized(k) == k.rpc = "newCfsServer" /\ k.pc = "done" /\ k.ret.err = Nil

\* the key is absent from the map or empty in it
Unset(m, key) == MapGet(m, key) = ""

\* C16: in the clientConf newCfsServer builds, every key the caller gave a
\* non-empty value keeps it (an unknown key such as zoneName too), except
\* logDir; volName, owner, logLevel, consulAddr and volType, where absent or
\* empty, get their defaults (the volName argument, a "csi_" token of
\* OwnerMaxLen characters, "info", the consul default, "0"); logDir is
\* always defaultLogDir followed by the final volume name; and no other key
\* appears or changes.
C16_DefaultsAndPassThrough ==
    \A c \in Calls :
        LET k    == call[c]
            conf == k.cs.clientConf
            in   == k.given
        IN  Normalized(k) =>
              /\ \A key \in DOMAIN in \ {KLogDir} :
                    in[key] # "" => MapGet(conf, key) = in[key]
              /\ Unset(in, KVolumeName) => MapGet(conf, KVolumeName) = k.req.name
              /\ Unset(in, KOwner) =>
                    /\ Len(MapGet(conf, KOwner)) = OwnerMaxLen
                    /\ SubSeq(MapGet(conf, KOwner), 1, 4) = "csi_"
              /\ Unset(in, KLogLevel) => MapGet(conf, KLogLevel) = "info"
              /\ Unset(in, KConsulAddr) =>
                    MapGet(conf, KConsulAddr) =
                        "http://consul-service.cubefs.svc.cluster.local:8500"
              /\ Unset(in, KVolType) => MapGet(conf, KVolType) = "0"
              /\ MapGet(conf, KLogDir) = "/cfs/logs/" \o MapGet(conf, KVolumeName)
              /\ DOMAIN conf = DOMAIN in \cup
                    {KMasterAddr, KVolumeName, KOwner, KLogLevel, KLogDir,
                     KConsulAddr, KVolType}
              /\ \A key \in DOMAIN in \ {KVolumeName, KOwner, KLogLevel, KLogDir,
                                          KConsulAddr, KVolType} :
                    conf[key] = in[key]

\* the caller gave an owner, a log directory and a zone, an empty volume
\* name key and no log level: owner and zone are kept, the log directory is
\* replaced, the name and the level are defaulted
C16_Witness ==
    \E c \in Calls :
        LET k    == call[c]
            conf == k.cs.clientConf
        IN  /\ Normalized(k)
            /\ k.req.name = "v"
            /\ KLogLevel \notin DOMAIN k.given
            /\ KVolumeName \in DOMAIN k.given /\ k.given[KVolumeName] = ""
            /\ MapGet(k.given, KOwner) = "x" /\ MapGet(k.given, KLogDir) = "x"
            /\ MapGet(k.given, KZoneName) = "x"
            /\ conf[KOwner] = "x" /\ conf[KZoneName] = "x"
            /\ conf[KLogDir] = "/cfs/logs/v"
            /\ conf[KVolumeName] = "v" /\ conf[KLogLevel] = "info"

\* C17 as stated: newCfsServer leaves the parameter map its caller handed
\* in as it was, the same keys with the same values after the call as
\* before, whether it builds a client or fails.
C17_CallerParametersUnchanged ==
    \A c \in Calls :
        LET k == call[c] IN
        (k.rpc = "newCfsServer" /\ k.pc = "done") =>
            /\ DOMAIN k.param = DOMAIN k.given
            /\ \A key \in DOMAIN k.given : k.param[key] = k.given[key]

\* C18: in every state the controller's capabilities are the one-element
\* list NewControllerServer built, create/delete volume; every
\* ControllerGetCapabilities response carries exactly that list; and the
\* capability check of CreateVolume and DeleteVolume passes, so no such
\* call was answered "unsupported capability".
C18_CapabilitiesFixed ==
    /\ caps = << "CREATE_DELETE_VOLUME" >>
    /\ validateControllerServiceRequest(caps, CREATE_DELETE_VOLUME) = Nil
    /\ \A c \in Calls :
          LET k == call[c] IN
          /\ k.rpc = "ControllerGetCapabilities" =>
                /\ k.pc = "done" /\ k.ret.err = Nil
                /\ k.capabilities = << "CREATE_DELETE_VOLUME" >>
          /\ k.rpc \in {"CreateVolume", "DeleteVolume"} =>
                k.ret.err.what # "unsupported capability"

\* ControllerGetCapabilities answered after a CreateVolume had created a
\* volume and a later call had been taken
C18_Witness ==
    \E c, d \in Calls :
        /\ call[c].rpc = "ControllerGetCapabilities" /\ call[c].pc = "done"
        /\ call[c].capabilities = << "CREATE_DELETE_VOLUME" >>
        /\ call[d].rpc = "DeleteVolume" /\ call[d].pc = "running"
        /\ cluster["v"].count = 1

\* every position of the endpoint list was tried at most once, and no
\* more attempts were made than the list has endpoints
SinglePass(k) ==
    /\ Len(k.attempts) <= Endpoints(k)
    /\ \A i, j \in 1..Len(k.attempts) :
          i # j => k.attempts[i].idx # k.attempts[j].idx
    /\ \A i \in 1..Len(k.attempts) : k.attempts[i].idx \in 1..Endpoints(k)

\* C19: an operation makes one pass over its endpoints, each position
\* tried at most once and at most as many cluster calls as endpoints, and,
\* every attempt returning, an operation that has started its failover
\* returns, with success or with an error.
C19_SinglePassTerminates ==
    /\ [](\A c \in Calls : SinglePass(call[c]))
    /\ \A c \in Calls : (call[c].pc = "running") ~> (call[c].pc = "done")

\* an operation returned its error after one attempt on each of three
\* endpoints
C19_Witness ==
    \E c \in Calls :
        LET k == call[c] IN
        /\ k.pc = "done" /\ k.ret.err # Nil
        /\ Endpoints(k) = 3 /\ Len(k.attempts) = 3
        /\ k.idx = 4
        /\ \A i \in 1..3 : k.attempts[i].idx = i /\ ~k.attempts[i].ok

\* the last capability of the list that is a mount has filesystem type fs
LastMountIs(list, fs) ==
    \E i \in 1..Len(list) :
        /\ list[i].access = "mount"
        /\ list[i].fsType = fs
        /\ \A j \in (i + 1)..Len(list) : list[j].access # "mount"

\* C20: a CreateVolume request with a name and with at least one mount
\* capability passes the request checks (the client is then built) if and
\* only if the last mount capability of its list has filesystem type
\* "chubaofs"; otherwise it is answered InvalidArgument, "Volume fstype is
\* not chubaofs", whatever the types of the mounts before it.
C20_LastMountDecides ==
    \A c \in Calls :
        LET k    == call[c]
            list == k.req.caps.list
        IN  (/\ k.rpc = "CreateVolume" /\ k.req.name # ""
             /\ ~k.req.caps.isNil
             /\ \E i \in 1..Len(list) : list[i].access = "mount") =>
              /\ k.stage = "CreateVolume" <=> LastMountIs(list, "chubaofs")
              /\ ~LastMountIs(list, "chubaofs") =>
                    /\ k.pc = "done" /\ k.attempts = << >>
                    /\ k.ret.err.class = "InvalidArgument"
                    /\ k.ret.err.what = "Volume fstype is not chubaofs"

\* a request listing an ext4 mount before a chubaofs mount created its
\* volume
C20_Witness ==
    \E c \in Calls :
        LET k == call[c] IN
        /\ k.rpc = "CreateVolume" /\ k.pc = "done" /\ k.ret.err = Nil
        /\ k.req.caps.list = << MountCap("ext4"), MountCap("chubaofs") >>
        /\ LastHttp(k).kind = "json" /\ LastHttp(k).code = 0
        /\ cluster["v"].count = 1

====
